---- MODULE Spec2Model ----
(***************************************************************************)
(* Model of the compliance-analysis service: the request handlers of      *)
(* compliance_agent/api.py (analyze_pdf, get_analysis_status,              *)
(* get_analysis_results, cancel_task, process_pdf_analysis) and the        *)
(* concurrent orchestrator of compliance_agent/extractor.py                *)
(* (orchestrate_compliance_analysis, process_chunk and the two inference   *)
(* calls).  Threads interleave at the granularity of one attribute         *)
(* assignment, one inference round trip or one file operation.             *)
(***************************************************************************)
EXTENDS Integers, Sequences, FiniteSets, TLC

(* ------------------------------ bounds --------------------------------- *)

\* largest number of segments a document is split into
MaxSegs == 2

(* ------------------------- program constants --------------------------- *)

\* api.py:82  file_size_mb < 5.0, sizes counted in tenths of a MB
SyncLimitTenths == 50

\* config.py:21  max_workers: int = 6
DefaultMaxWorkers == 6

\* TaskStatus.progress values, in tenths: 0.0 (api.py:154), 0.1 (api.py:283),
\* 1.0 (api.py:311)
ProgressQueued == 0
ProgressStarted == 1
ProgressDone == 10

(* ------------------------------ inputs --------------------------------- *)

\* Submissions of a behaviour; the task id of a submission (uuid4, api.py:85)
\* is the submission itself.
Runs == {1}

\* Upload sizes in tenths of a MB: just below and exactly at the routing limit.
Sizes == {SyncLimitTenths - 1, SyncLimitTenths}

\* settings.max_workers is read from the environment (config.py:5-29).
WorkerLimits == {1, DefaultMaxWorkers}

\* What one record of a requirement-discovery response looks like, and what
\* the control-suggestion call made for it answers:
\*   ok          conforming record; the control call returns conforming controls
\*   bad         a mapping that lacks a required field of ComplianceRequirement
\*   str         not a mapping at all
\*   ctlfail     conforming record; the control call raises
\*   ctlnonlist  conforming record; the control call returns a non-list
\*   ctlbad      conforming record; the control call returns a list holding a
\*               record that is no ControlSuggestion
Kinds == {"ok", "bad", "str", "ctlfail", "ctlnonlist", "ctlbad"}

\* A requirement-discovery response: the call raises (<<"fail">>), returns a
\* non-list (<<"nonlist">>) or returns a list of records (<<"list", kinds>>).
ListResponses ==
    { <<"list", <<>>>>,
      <<"list", <<"ok">>>>,
      <<"list", <<"bad", "ok">>>>,
      <<"list", <<"ok", "str">>>>,
      <<"list", <<"ctlfail", "ctlnonlist", "ctlbad">>>> }

Responses == { <<"fail", <<>>>>, <<"nonlist", <<>>>> } \cup ListResponses

\* Wall-clock seconds in which a run can read datetime.now() (api.py:104,287).
Seconds == {0}

NoPath == <<>>

VARIABLES
    doc,          \* doc[r]: the submitted upload and the answers the two
                  \*   external services give for it
    pc,           \* pc[r]: position of the thread driving run r
    http,         \* http[r]: the response of the analyze request of run r
    task_store,   \* api.py:16, task id -> TaskStatus
    temp,         \* temp[r]: temp_{task_id}.pdf exists
    work,         \* work[r]: one entry per submitted process_chunk future
    results,      \* results[r]: the orchestrator's dict, in insertion order
    all_results,  \* all_results[r]: the snapshot about to be dumped
    ckpt,         \* ckpt[s]: the file intermediate_{s}.json
    writes,       \* writes[r]: checkpoint writes run r has completed
    ret,          \* ret[r]: what orchestrate_compliance_analysis returned
    loaded,       \* loaded[r]: what load_and_chunk_pdf returned
    exc,          \* exc[r]: the exception the driving thread has caught
    resfile,      \* resfile[r]: the file results_{task_id}.json
    creq,         \* the cancel request in progress
    accepted,     \* the tasks for which a cancel request has answered success
    reply         \* the last answer of a query handler that is observed

vars == << doc, pc, http, task_store, temp, work, results, all_results, ckpt,
           writes, ret, loaded, exc, resfile, creq, accepted, reply >>

orchVars == << work, results, all_results, ckpt, writes, ret, loaded >>
cancelVars == << creq, accepted >>

(* ------------------------------ strings -------------------------------- *)

\* A Python str is the sequence of its characters.
UpperLetters ==
    << "A", "B", "C", "D", "E", "F", "G", "H", "I", "J", "K", "L", "M",
       "N", "O", "P", "Q", "R", "S", "T", "U", "V", "W", "X", "Y", "Z" >>
LowerLetters ==
    << "a", "b", "c", "d", "e", "f", "g", "h", "i", "j", "k", "l", "m",
       "n", "o", "p", "q", "r", "s", "t", "u", "v", "w", "x", "y", "z" >>
DigitChars == << "0", "1", "2", "3", "4", "5", "6", "7", "8", "9" >>
Whitespace == {" ", "\t"}

\* the letter of seq `to` at the place c has in seq `from`, c when it has none
MapChar(c, from, to) ==
    IF \E k \in 1..Len(from) : from[k] = c
    THEN to[CHOOSE k \in 1..Len(from) : from[k] = c]
    ELSE c

\* str.lower() and str.upper()
lower(str) == [k \in 1..Len(str) |-> MapChar(str[k], UpperLetters, LowerLetters)]
upper(str) == [k \in 1..Len(str) |-> MapChar(str[k], LowerLetters, UpperLetters)]

\* sub in str
Contains(str, sub) ==
    \E k \in 0..(Len(str) - Len(sub)) : SubSeq(str, k + 1, k + Len(sub)) = sub

\* str.startswith(prefix)
StartsWith(str, prefix) ==
    /\ Len(prefix) <= Len(str)
    /\ SubSeq(str, 1, Len(prefix)) = prefix

\* str.isdigit(): at least one character, all of them digits
isdigit(str) ==
    /\ str # << >>
    /\ \A k \in 1..Len(str) : \E d \in 1..Len(DigitChars) : DigitChars[d] = str[k]

RECURSIVE strip(_)
\* str.strip()
strip(str) ==
    IF str = << >> THEN str
    ELSE IF Head(str) \in Whitespace THEN strip(Tail(str))
    ELSE IF str[Len(str)] \in Whitespace THEN strip(SubSeq(str, 1, Len(str) - 1))
    ELSE str

RECURSIVE Str(_)
\* the decimal digits of a natural number, as f"{n}" formats it
Str(n) ==
    IF n < 10 THEN <<DigitChars[n + 1]>>
    ELSE Str(n \div 10) \o <<DigitChars[(n % 10) + 1]>>

(* -------------------------- document_loader ---------------------------- *)

\* document_loader.py:55  page_content[:2000]
SampleChars == 2000

\* the marker phrases of document_loader.py:15-19
IsoMarkers == { << "i", "s", "o" >>,
                << "i", "n", "t", "e", "r", "n", "a", "t", "i", "o",
                   "n", "a", "l", " ", "s", "t", "a", "n", "d", "a", "r",
                   "d" >> }
DpdpMarkers == { << "d", "i", "g", "i", "t", "a", "l", " ", "p", "e",
                   "r", "s", "o", "n", "a", "l", " ", "d", "a", "t", "a",
                   " ", "p", "r", "o", "t", "e", "c", "t", "i", "o", "n" >>,
                 << "d", "a", "t", "a", " ", "p", "r", "i", "n", "c",
                   "i", "p", "a", "l" >> }
RbiMarkers == { << "r", "b", "i" >>,
                << "r", "e", "s", "e", "r", "v", "e", " ", "b", "a",
                   "n", "k" >> }

\* the ISO branch tested after the RBI branch
detect_document_type_rbi_first(text_sample) ==
    LET text_lower == lower(text_sample)
    IN IF \E m \in RbiMarkers : Contains(text_lower, m) THEN "RBI"
       ELSE IF \E m \in DpdpMarkers : Contains(text_lower, m) THEN "DPDP"
       ELSE IF \E m \in IsoMarkers : Contains(text_lower, m) THEN "ISO"
       ELSE "GENERAL"

\* document_loader.py:12-22
detect_document_type(text_sample) ==
    LET text_lower == lower(text_sample)
    IN IF \E m \in IsoMarkers : Contains(text_lower, m) THEN "ISO"
       ELSE IF \E m \in DpdpMarkers : Contains(text_lower, m) THEN "DPDP"
       ELSE IF \E m \in RbiMarkers : Contains(text_lower, m) THEN "RBI"
       ELSE "GENERAL"

\* document_loader.py:55: the first SampleChars characters of the first
\* page, the empty string when there is no page
sample_text(documents) ==
    IF documents = << >> THEN << >>
    ELSE SubSeq(documents[1], 1,
                IF Len(documents[1]) < SampleChars THEN Len(documents[1])
                ELSE SampleChars)

\* range(1, 50) of document_loader.py:118
HeadingNumbers == 1..49

SectPart == << "s", "e", "c", "t" >>
SecDotPart == << "s", "e", "c", ".", " " >>
AnnexPart == << "A", "N", "N", "E", "X" >>
SectionPrefix == << "S", "e", "c", "t", "i", "o", "n", "_" >>
FallbackPrefix == << "s", "e", "c", "t", "i", "o", "n", "_" >>

\* the positional id counted from 0
section_id_zero_based(doc_type, i, line) ==
    LET first_line == strip(line)
    IN IF /\ doc_type = "DPDP"
          /\ \/ Contains(lower(first_line), SectPart)
             \/ Contains(first_line, SecDotPart)
       THEN SectionPrefix \o Str(i)
       ELSE IF \/ \E j \in HeadingNumbers : StartsWith(first_line, Str(j) \o <<".">>)
               \/ isdigit(first_line)
               \/ Contains(upper(first_line), AnnexPart)
       THEN first_line
       ELSE FallbackPrefix \o Str(i)

\* document_loader.py:110-125: the section_id given to the chunk at
\* position i whose text starts with the given line.  split('\n') never
\* yields an empty list, so the branch of line 125 is never taken.
section_id(doc_type, i, line) ==
    LET first_line == strip(line)
    IN IF /\ doc_type = "DPDP"
          /\ \/ Contains(lower(first_line), SectPart)
             \/ Contains(first_line, SecDotPart)
       THEN SectionPrefix \o Str(i + 1)
       ELSE IF \/ \E j \in HeadingNumbers : StartsWith(first_line, Str(j) \o <<".">>)
               \/ isdigit(first_line)
               \/ Contains(upper(first_line), AnnexPart)
       THEN first_line
       ELSE FallbackPrefix \o Str(i + 1)

\* document_loader.py:49-127: the document type and the section ids of the
\* chunks of the upload of run r
load_and_chunk_pdf(r) ==
    LET doc_type == detect_document_type(sample_text(doc[r].pages))
    IN [doc_type |-> doc_type,
        section_ids |-> [k \in 1..doc[r].n |->
                            section_id(doc_type, k - 1, doc[r].lines[k])]]

RECURSIVE DigitsPrefixLen(_)
\* the number of digits str starts with: the match of [0-9]+ at its head
DigitsPrefixLen(str) ==
    IF str # << >> /\ isdigit(<<Head(str)>>)
    THEN 1 + DigitsPrefixLen(Tail(str))
    ELSE 0

RECURSIVE SectionNumLen(_)
\* the length of the match of ^([0-9]+(?:\.[0-9]+)*), 0 for no match
SectionNumLen(str) ==
    LET d == DigitsPrefixLen(str)
        rest == SubSeq(str, d + 1, Len(str))
    IN IF d = 0 THEN 0
       ELSE IF /\ rest # << >>
               /\ Head(rest) = "."
               /\ DigitsPrefixLen(Tail(rest)) > 0
       THEN d + 1 + SectionNumLen(Tail(rest))
       ELSE d

\* document_loader.py:130-133; None is the empty sequence
extract_section_num(id) == SubSeq(id, 1, SectionNumLen(id))

\* extractor.py:114-115  extract_section_num(section_id) or section_id
section_num(r, i) ==
    LET id == loaded[r].section_ids[i + 1]
        num == extract_section_num(id)
    IN IF num # << >> THEN num ELSE id

(* --------------------------- pure functions ---------------------------- *)

RECURSIVE Concat(_)
\* the flattening of a sequence of lists
Concat(ss) == IF ss = <<>> THEN <<>> ELSE Head(ss) \o Concat(Tail(ss))

RECURSIVE SortedSeq(_)
\* sorted(keys): the members of a set of integers in ascending order
SortedSeq(S) ==
    IF S = {} THEN <<>>
    ELSE LET m == CHOOSE x \in S : \A y \in S : x <= y
         IN <<m>> \o SortedSeq(S \ {m})

\* the number of segments load_and_chunk_pdf yields for run r; segment
\* ordinals are 0-based as in enumerate(chunks)
NumChunks(r) == doc[r].n
Ordinals(r) == 0 .. (NumChunks(r) - 1)

\* the record list of a list response, FALSE-like <<>> for the other answers
ResponseOf(r, i) == doc[r].resp[i + 1]

\* the article_number a response reports on its own: "Art.5"
SuppliedArticle == << "A", "r", "t", ".", "5" >>

\* the k-th record of a discovery response as the inference service sends
\* it: art and text are its own report of article_number and article_text
ResponseRecord(k, kind) ==
    [id |-> k, kind |-> kind, art |-> SuppliedArticle, text |-> << >>,
     controls |-> "unset"]

\* an overwrite that fills the two fields only where the response left
\* them out
OverrideKeepsSupplied(r, i, k, kind) == ResponseRecord(k, kind)

\* extractor.py:126-128: the overwrite of article_number and article_text
\* of the k-th record of the response for segment i; <<r, i>> stands for
\* chunk.page_content, the text of segment i of upload r
Override(r, i, k, kind) ==
    [ResponseRecord(k, kind) EXCEPT !.art = section_num(r, i),
                                    !.text = <<r, i>>]

IsMapping(kind) == kind # "str"

\* extract_requirements_from_chunk: what the discovery call of segment i
\* yields.  A raising call and a non-list give [], and so does a list with
\* an item that is no mapping: the item assignment at line 127 raises
\* TypeError inside the try block and line 134 returns [].
extract_requirements_from_chunk(r, i) ==
    LET resp == ResponseOf(r, i)
        kinds == resp[2]
    IN IF resp[1] # "list" THEN <<>>
       ELSE IF \E k \in 1..Len(kinds) : ~IsMapping(kinds[k]) THEN <<>>
       ELSE [k \in 1..Len(kinds) |-> Override(r, i, k, kinds[k])]

\* a control call whose failure yields None in place of the empty list
extract_controls_none_on_failure(req) ==
    CASE req.kind = "ctlfail" -> "bad"
      [] req.kind = "ctlnonlist" -> "bad"
      [] req.kind = "ctlbad" -> "bad"
      [] OTHER -> "ok"

\* extract_controls_for_requirement: the controls list for one requirement
extract_controls_for_requirement(req) ==
    CASE req.kind = "ctlfail" -> "empty"
      [] req.kind = "ctlnonlist" -> "empty"
      [] req.kind = "ctlbad" -> "bad"
      [] OTHER -> "ok"

\* process_chunk (extractor.py:151-168): the list the invocation for segment
\* i returns, every requirement with the controls of its own call
process_chunk(r, i) ==
    LET reqs == extract_requirements_from_chunk(r, i)
    IN [k \in 1..Len(reqs) |->
          [reqs[k] EXCEPT !.controls = extract_controls_for_requirement(reqs[k])]]

\* ComplianceRequirement.model_validate succeeds (models.py:12-19)
Conforms(req) ==
    /\ req.kind # "bad"
    /\ req.controls \in {"unset", "empty", "ok"}

\* dict keys / values of the insertion-ordered results dict
Keys(d) == { d[k][1] : k \in 1..Len(d) }
Lookup(d, idx) == (CHOOSE k \in 1..Len(d) : d[k][1] = idx)

\* results[idx] = value (extractor.py:196): a new key goes last, an existing
\* key keeps its place
DictSet(d, idx, value) ==
    IF idx \in Keys(d)
    THEN [d EXCEPT ![Lookup(d, idx)] = <<idx, value>>]
    ELSE Append(d, <<idx, value>>)

\* the flattening without sorted(): the dict's own (insertion) order
FlattenInsertionOrder(d) == Concat([k \in 1..Len(d) |-> d[k][2]])

\* extractor.py:199  [item for idx in sorted(results.keys()) for item in results[idx]]
Flatten(d) ==
    LET order == SortedSeq(Keys(d))
    IN Concat([k \in 1..Len(order) |-> d[Lookup(d, order[k])][2]])

RECURSIVE Validated(_)
\* extractor.py:209-217: the records model_validate accepts, in order
Validated(s) ==
    IF s = <<>> THEN <<>>
    ELSE (IF Conforms(Head(s)) THEN <<Head(s)>> ELSE <<>>) \o Validated(Tail(s))

\* the final loop iterating the dict without sorted()
FinalResultsInsertionOrder(d) == Validated(FlattenInsertionOrder(d))

\* extractor.py:207-217: the validated flattening
FinalResults(d) == Validated(Flatten(d))

\* the name of the intermediate file of run r: the second in which the run
\* read the clock (api.py:104-105, 287-288)
CkptName(r) == doc[r].second


(* --------------------------- loader inputs ----------------------------- *)

\* first pages
\* ""
EmptyText ==
    << >>
\* "ISO 9001"
IsoPage ==
    << "I", "S", "O", " ", "9", "0", "0", "1" >>
\* "International Standard"
StandardPage ==
    << "I", "n", "t", "e", "r", "n", "a", "t", "i", "o", "n", "a", "l",
       " ", "S", "t", "a", "n", "d", "a", "r", "d" >>
\* "RBI, Data Principal, ISO"
AllMarkersPage ==
    << "R", "B", "I", ",", " ", "D", "a", "t", "a", " ", "P", "r", "i",
       "n", "c", "i", "p", "a", "l", ",", " ", "I", "S", "O" >>
\* "data principal of Reserve Bank"
DpdpRbiPage ==
    << "d", "a", "t", "a", " ", "p", "r", "i", "n", "c", "i", "p", "a",
       "l", " ", "o", "f", " ", "R", "e", "s", "e", "r", "v", "e", " ",
       "B", "a", "n", "k" >>
\* "Digital Personal Data Protection"
DpdpPage ==
    << "D", "i", "g", "i", "t", "a", "l", " ", "P", "e", "r", "s", "o",
       "n", "a", "l", " ", "D", "a", "t", "a", " ", "P", "r", "o", "t",
       "e", "c", "t", "i", "o", "n" >>
\* "RBI circular"
RbiPage ==
    << "R", "B", "I", " ", "c", "i", "r", "c", "u", "l", "a", "r" >>
\* "reserve bank"
ReserveBankPage ==
    << "r", "e", "s", "e", "r", "v", "e", " ", "b", "a", "n", "k" >>
\* "Supervisor"
SupervisorPage ==
    << "S", "u", "p", "e", "r", "v", "i", "s", "o", "r" >>
\* "Arbitration"
ArbitrationPage ==
    << "A", "r", "b", "i", "t", "r", "a", "t", "i", "o", "n" >>
\* "Policy"
PlainPage ==
    << "P", "o", "l", "i", "c", "y" >>

Pages ==
    { EmptyText,
      IsoPage,
      StandardPage,
      AllMarkersPage,
      DpdpRbiPage,
      DpdpPage,
      RbiPage,
      ReserveBankPage,
      SupervisorPage,
      ArbitrationPage,
      PlainPage }

\* first lines of chunks
\* "7. Scope"
NumberedLine ==
    << "7", ".", " ", "S", "c", "o", "p", "e" >>
\* "6.1.2 Risk"
DottedLine ==
    << "6", ".", "1", ".", "2", " ", "R", "i", "s", "k" >>
\* " 12 "
DigitsLine ==
    << " ", "1", "2", " " >>
\* "ANNEX A"
AnnexCapsLine ==
    << "A", "N", "N", "E", "X", " ", "A" >>
\* "Annex B"
AnnexLine ==
    << "A", "n", "n", "e", "x", " ", "B" >>
\* "Section 4"
SectionLine ==
    << "S", "e", "c", "t", "i", "o", "n", " ", "4" >>
\* "SEC. 3"
SecLine ==
    << "S", "E", "C", ".", " ", "3" >>
\* "see sec. 3"
SecLowerLine ==
    << "s", "e", "e", " ", "s", "e", "c", ".", " ", "3" >>
\* "1. Sections"
NumberedSectionLine ==
    << "1", ".", " ", "S", "e", "c", "t", "i", "o", "n", "s" >>
\* "Intro"
PlainLine ==
    << "I", "n", "t", "r", "o" >>
\* ""
EmptyLine ==
    << >>
\* "50. Misc"
FiftyLine ==
    << "5", "0", ".", " ", "M", "i", "s", "c" >>
\* "0. Misc"
ZeroLine ==
    << "0", ".", " ", "M", "i", "s", "c" >>

FirstLines ==
    { NumberedLine,
      DottedLine,
      DigitsLine,
      AnnexCapsLine,
      AnnexLine,
      SectionLine,
      SecLine,
      SecLowerLine,
      NumberedSectionLine,
      PlainLine,
      EmptyLine,
      FiftyLine,
      ZeroLine }

(* ------------------------------- Init ---------------------------------- *)

\* An upload that is rejected or cannot be parsed never reaches the
\* segmenter, so its segments are left out of the input.
Docs ==
    { d \in [ pdf : BOOLEAN, size : Sizes, readable : BOOLEAN,
              n : 0..MaxSegs,
              resp : UNION { [1..k -> Responses] : k \in 0..MaxSegs },
              workers : WorkerLimits, second : Seconds,
              pages : {<< >>, <<PlainPage>>},
              lines : UNION { [1..k -> {PlainLine}] : k \in 0..MaxSegs } ] :
        /\ Len(d.resp) = d.n
        /\ Len(d.lines) = d.n
        /\ d.pages = << >> <=> d.n = 0
        /\ ~d.readable => d.n = 0
        /\ ~d.pdf => (d.readable /\ d.n = 0 /\ d.size = SyncLimitTenths)
        /\ d.n = 0 => d.workers = DefaultMaxWorkers }

NoReturn == [returned |-> FALSE, value |-> <<>>]
NotLoaded == [doc_type |-> "none", section_ids |-> << >>]
NoFile ==
    [exists |-> FALSE, total_chunks |-> 0, processed_chunks |-> 0,
     found |-> 0, data |-> <<>>]
NoCkpt == [state |-> "absent", content |-> <<>>]
NoHttp == [code |-> 0, mode |-> "none", found |-> 0, data |-> <<>>]
IdleCancel == [pc |-> "idle", t |-> 0]
NoReply == [op |-> "none", t |-> 0, code |-> 0]

Init ==
    /\ doc \in [Runs -> Docs]
    /\ pc = [r \in Runs |-> "new"]
    /\ http = [r \in Runs |-> NoHttp]
    /\ task_store = << >>
    /\ temp = [r \in Runs |-> FALSE]
    /\ work = [r \in Runs |-> << >>]
    /\ results = [r \in Runs |-> << >>]
    /\ all_results = [r \in Runs |-> << >>]
    /\ ckpt = [s \in Seconds |-> NoCkpt]
    /\ writes = [r \in Runs |-> 0]
    /\ ret = [r \in Runs |-> NoReturn]
    /\ loaded = [r \in Runs |-> NotLoaded]
    /\ exc = [r \in Runs |-> "none"]
    /\ resfile = [r \in Runs |-> NoFile]
    /\ creq = IdleCancel
    /\ accepted = {}
    /\ reply = NoReply

(* --------------------------- analyze_pdf ------------------------------- *)

\* the routing test written with <= in place of <
sync_processing_inclusive(r) == doc[r].size <= SyncLimitTenths

\* api.py:82  sync_processing = file_size_mb < 5.0
sync_processing(r) == doc[r].size < SyncLimitTenths

\* api.py:151-157  the record of a queued task
PendingTask ==
    [ status |-> "pending", progress |-> ProgressQueued,
      message |-> [kind |-> "queued", found |-> 0, err |-> "none"],
      result_path |-> NoPath, intermediate_path |-> NoPath ]

\* api.py:76-77  a file that is no PDF is refused before anything is stored
SubmitRejected(r) ==
    /\ pc[r] = "new"
    /\ ~doc[r].pdf
    /\ pc' = [pc EXCEPT ![r] = "done"]
    /\ http' = [http EXCEPT ![r] = [NoHttp EXCEPT !.code = 400]]
    /\ UNCHANGED << doc, task_store, temp, exc, resfile, orchVars, cancelVars, reply >>

\* api.py:79-105  a small upload: the temp file is written and the request
\* goes on to run the pipeline itself
SubmitSync(r) ==
    /\ pc[r] = "new"
    /\ doc[r].pdf
    /\ sync_processing(r)
    /\ temp' = [temp EXCEPT ![r] = TRUE]
    /\ pc' = [pc EXCEPT ![r] = "load"]
    /\ UNCHANGED << doc, http, task_store, exc, resfile, orchVars, cancelVars, reply >>

\* api.py:79-93, 146-168  a large upload: the temp file is written, the
\* task record is stored, the background run is queued and the id returned
SubmitAsync(r) ==
    /\ pc[r] = "new"
    /\ doc[r].pdf
    /\ ~sync_processing(r)
    /\ temp' = [temp EXCEPT ![r] = TRUE]
    /\ task_store' = (r :> PendingTask) @@ task_store
    /\ pc' = [pc EXCEPT ![r] = "queued"]
    /\ http' = [http EXCEPT ![r] =
                  [NoHttp EXCEPT !.code = 200, !.mode = "asynchronous"]]
    /\ UNCHANGED << doc, exc, resfile, orchVars, cancelVars, reply >>

(* ------------------ orchestrate_compliance_analysis -------------------- *)

QueuedChunk == [st |-> "queued", reqs |-> << >>, j |-> 0]

\* an except clause of the background run that cleans up without marking
\* the task
HandlerSkipsStatus(r) == IF sync_processing(r) THEN "s_fail" ELSE "f_clean"

\* the target of the except clause that catches an error of the pipeline:
\* api.py:139 on the synchronous path, api.py:321 on the background path
Handler(r) == IF sync_processing(r) THEN "s_fail" ELSE "f_status"

\* extractor.py:176: load_and_chunk_pdf raises for a file that cannot be
\* parsed; the exception leaves the orchestrator
LoadFails(r) ==
    /\ pc[r] = "load"
    /\ ~doc[r].readable
    /\ exc' = [exc EXCEPT ![r] = "DocumentUnreadable"]
    /\ pc' = [pc EXCEPT ![r] = Handler(r)]
    /\ UNCHANGED << doc, http, task_store, temp, resfile, orchVars, cancelVars, reply >>

\* extractor.py:176-191: the document is chunked and one process_chunk
\* future per chunk is submitted to the pool
LoadAndSubmit(r) ==
    /\ pc[r] = "load"
    /\ doc[r].readable
    /\ loaded' = [loaded EXCEPT ![r] = load_and_chunk_pdf(r)]
    /\ work' = [work EXCEPT ![r] = [k \in 1..NumChunks(r) |-> QueuedChunk]]
    /\ results' = [results EXCEPT ![r] = << >>]
    /\ pc' = [pc EXCEPT ![r] = "pool"]
    /\ UNCHANGED << doc, http, task_store, temp, exc, resfile, all_results,
                    ckpt, writes, ret, cancelVars, reply >>

Running(r) == { k \in 1..Len(work[r]) : work[r][k].st \in {"discover", "controls"} }

\* a pool that starts a thread for every queued work item
StartChunkUnbounded(r, i) ==
    /\ i \in 0..(Len(work[r]) - 1)
    /\ work[r][i + 1].st = "queued"
    /\ \A k \in 1..i : work[r][k].st # "queued"
    /\ work' = [work EXCEPT ![r][i + 1].st = "discover"]
    /\ UNCHANGED << doc, pc, http, task_store, temp, exc, resfile, results,
                    all_results, ckpt, writes, ret, loaded,
                    cancelVars, reply >>

\* ThreadPoolExecutor: a pool thread takes the oldest queued work item, and
\* at most max_workers threads exist (extractor.py:186)
StartChunk(r, i) ==
    /\ i \in 0..(Len(work[r]) - 1)
    /\ work[r][i + 1].st = "queued"
    /\ \A k \in 1..i : work[r][k].st # "queued"
    /\ Cardinality(Running(r)) < doc[r].workers
    /\ work' = [work EXCEPT ![r][i + 1].st = "discover"]
    /\ UNCHANGED << doc, pc, http, task_store, temp, exc, resfile, results,
                    all_results, ckpt, writes, ret, loaded,
                    cancelVars, reply >>

\* a discovery call that is made again after it failed
DiscoverWithRetry(r, i) ==
    /\ i \in 0..(Len(work[r]) - 1)
    /\ work[r][i + 1].st = "discover"
    /\ LET reqs == extract_requirements_from_chunk(r, i)
       IN work' = [work EXCEPT ![r][i + 1] =
                     [st |-> IF ResponseOf(r, i)[1] = "fail" THEN "queued"
                             ELSE IF reqs = << >> THEN "done" ELSE "controls",
                      reqs |-> reqs, j |-> 0]]
    /\ UNCHANGED << doc, pc, http, task_store, temp, exc, resfile, results,
                    all_results, ckpt, writes, ret, loaded,
                    cancelVars, reply >>

\* extractor.py:157: the requirement-discovery round trip of process_chunk;
\* with no requirement the future completes at once (lines 160-168)
DiscoverRequirements(r, i) ==
    /\ i \in 0..(Len(work[r]) - 1)
    /\ work[r][i + 1].st = "discover"
    /\ LET reqs == extract_requirements_from_chunk(r, i)
       IN work' = [work EXCEPT ![r][i + 1] =
                     [st |-> IF reqs = << >> THEN "done" ELSE "controls",
                      reqs |-> reqs, j |-> 0]]
    /\ UNCHANGED << doc, pc, http, task_store, temp, exc, resfile, results,
                    all_results, ckpt, writes, ret, loaded,
                    cancelVars, reply >>

\* extractor.py:162-165: one control-suggestion round trip; after the last
\* one process_chunk returns and its future completes
SuggestControls(r, i) ==
    /\ i \in 0..(Len(work[r]) - 1)
    /\ work[r][i + 1].st = "controls"
    /\ LET w == work[r][i + 1]
           k == w.j + 1
           reqs == [w.reqs EXCEPT ![k].controls =
                      extract_controls_for_requirement(w.reqs[k])]
       IN work' = [work EXCEPT ![r][i + 1] =
                     [st |-> IF k = Len(reqs) THEN "done" ELSE "controls",
                      reqs |-> reqs, j |-> k]]
    /\ UNCHANGED << doc, pc, http, task_store, temp, exc, resfile, results,
                    all_results, ckpt, writes, ret, loaded,
                    cancelVars, reply >>

\* a slot write made as soon as an invocation is done, also while a
\* checkpoint is being written
CollectResultAnyTime(r, i) ==
    /\ pc[r] \in {"pool", "dump"}
    /\ i \in 0..(Len(work[r]) - 1)
    /\ work[r][i + 1].st = "done"
    /\ i \notin Keys(results[r])
    /\ LET d == DictSet(results[r], i, work[r][i + 1].reqs)
       IN /\ results' = [results EXCEPT ![r] = d]
          /\ all_results' = [all_results EXCEPT ![r] = Flatten(d)]
    /\ ckpt' = [ckpt EXCEPT ![CkptName(r)] =
                  [state |-> "truncated", content |-> << >>]]
    /\ pc' = [pc EXCEPT ![r] = "dump"]
    /\ UNCHANGED << doc, http, task_store, temp, exc, resfile, work, writes,
                    ret, loaded, cancelVars, reply >>

\* a slot write under the 1-based number of the segment
CollectResultOneBased(r, i) ==
    /\ pc[r] = "pool"
    /\ i \in 0..(Len(work[r]) - 1)
    /\ work[r][i + 1].st = "done"
    /\ (i + 1) \notin Keys(results[r])
    /\ LET d == DictSet(results[r], i + 1, work[r][i + 1].reqs)
       IN /\ results' = [results EXCEPT ![r] = d]
          /\ all_results' = [all_results EXCEPT ![r] = Flatten(d)]
    /\ ckpt' = [ckpt EXCEPT ![CkptName(r)] =
                  [state |-> "truncated", content |-> << >>]]
    /\ pc' = [pc EXCEPT ![r] = "dump"]
    /\ UNCHANGED << doc, http, task_store, temp, exc, resfile, work, writes,
                    ret, loaded, cancelVars, reply >>

\* extractor.py:194-202: as_completed yields a finished future; its list is
\* stored under its ordinal, the snapshot is recomputed and the intermediate
\* file is opened for writing, which truncates it
CollectResult(r, i) ==
    /\ pc[r] = "pool"
    /\ i \in 0..(Len(work[r]) - 1)
    /\ work[r][i + 1].st = "done"
    /\ i \notin Keys(results[r])
    /\ LET d == DictSet(results[r], i, work[r][i + 1].reqs)
       IN /\ results' = [results EXCEPT ![r] = d]
          /\ all_results' = [all_results EXCEPT ![r] = Flatten(d)]
    /\ ckpt' = [ckpt EXCEPT ![CkptName(r)] =
                  [state |-> "truncated", content |-> << >>]]
    /\ pc' = [pc EXCEPT ![r] = "dump"]
    /\ UNCHANGED << doc, http, task_store, temp, exc, resfile, work, writes,
                    ret, loaded,
                    cancelVars, reply >>

\* a checkpoint written only once every segment has been collected
DumpOnlyWhenComplete(r) ==
    /\ pc[r] = "dump"
    /\ IF Keys(results[r]) = Ordinals(r)
       THEN /\ ckpt' = [ckpt EXCEPT ![CkptName(r)] =
                          [state |-> "written", content |-> all_results[r]]]
            /\ writes' = [writes EXCEPT ![r] = @ + 1]
       ELSE UNCHANGED << ckpt, writes >>
    /\ pc' = [pc EXCEPT ![r] = "pool"]
    /\ UNCHANGED << doc, http, task_store, temp, exc, resfile, work, results,
                    all_results, ret, loaded, cancelVars, reply >>

\* extractor.py:203-204: json.dump writes the snapshot and the file is closed
DumpCheckpoint(r) ==
    /\ pc[r] = "dump"
    /\ ckpt' = [ckpt EXCEPT ![CkptName(r)] =
                  [state |-> "written", content |-> all_results[r]]]
    /\ writes' = [writes EXCEPT ![r] = @ + 1]
    /\ pc' = [pc EXCEPT ![r] = "pool"]
    /\ UNCHANGED << doc, http, task_store, temp, exc, resfile, work, results,
                    all_results, ret, loaded,
                    cancelVars, reply >>

\* extractor.py:206-220: every future has been collected; the records are
\* validated and the list is returned
ReturnResults(r) ==
    /\ pc[r] = "pool"
    /\ Keys(results[r]) = Ordinals(r)
    /\ ret' = [ret EXCEPT ![r] =
                 [returned |-> TRUE, value |-> FinalResults(results[r])]]
    /\ pc' = [pc EXCEPT ![r] = "build"]
    /\ UNCHANGED << doc, http, task_store, temp, exc, resfile, work, results,
                    all_results, ckpt, writes, loaded,
                    cancelVars, reply >>

(* ------------------- analyze_pdf, synchronous tail --------------------- *)

\* api.py:112-120 and 294-302: the AnalysisResult built from the returned
\* list.  total_chunks is the literal 0 on the synchronous path and
\* result[0].chunk_count, an attribute ComplianceRequirement does not have,
\* else 0, on the background path; processed_chunks is len(result) on both.
analysis_result(value) ==
    [exists |-> TRUE, total_chunks |-> 0, processed_chunks |-> Len(value),
     found |-> Len(value), data |-> value]

\* api.py:110-137: the result is saved, the temp file removed and the
\* result returned inline
SyncSaveAndReturn(r) ==
    /\ pc[r] = "build"
    /\ sync_processing(r)
    /\ resfile' = [resfile EXCEPT ![r] = analysis_result(ret[r].value)]
    /\ temp' = [temp EXCEPT ![r] = FALSE]
    /\ http' = [http EXCEPT ![r] =
                  [code |-> 200, mode |-> "synchronous",
                   found |-> Len(ret[r].value), data |-> ret[r].value]]
    /\ pc' = [pc EXCEPT ![r] = "done"]
    /\ UNCHANGED << doc, task_store, exc, orchVars, cancelVars, reply >>

\* api.py:139-144: the temp file is removed and the request answers 500
SyncFail(r) ==
    /\ pc[r] = "s_fail"
    /\ temp' = [temp EXCEPT ![r] = FALSE]
    /\ http' = [http EXCEPT ![r] = [NoHttp EXCEPT !.code = 500]]
    /\ pc' = [pc EXCEPT ![r] = "done"]
    /\ UNCHANGED << doc, task_store, exc, resfile, orchVars, cancelVars, reply >>

(* ----------------------- process_pdf_analysis -------------------------- *)

\* one attribute assignment of the background run to its task record
BgAssign(r, at, field, value, next) ==
    /\ pc[r] = at
    /\ task_store' = [task_store EXCEPT ![r][field] = value]
    /\ pc' = [pc EXCEPT ![r] = next]
    /\ UNCHANGED << doc, http, temp, exc, resfile, orchVars, cancelVars, reply >>

\* api.py:281
BgSetProcessing(r) == BgAssign(r, "queued", "status", "processing", "p_msg")

\* api.py:282
BgSetLoadingMessage(r) ==
    BgAssign(r, "p_msg", "message",
             [kind |-> "loading", found |-> 0, err |-> "none"], "p_prog")

\* api.py:283-288; line 291 then calls the orchestrator
BgSetStartProgress(r) ==
    BgAssign(r, "p_prog", "progress", ProgressStarted, "load")

\* api.py:296: result[0] of an empty list raises IndexError, caught at 321
BgBuildFails(r) ==
    /\ pc[r] = "build"
    /\ ~sync_processing(r)
    /\ ret[r].value = << >>
    /\ exc' = [exc EXCEPT ![r] = "IndexError"]
    /\ pc' = [pc EXCEPT ![r] = "f_status"]
    /\ UNCHANGED << doc, http, task_store, temp, resfile, orchVars, cancelVars, reply >>

\* api.py:294-307: the AnalysisResult is built and saved
BgSaveResult(r) ==
    /\ pc[r] = "build"
    /\ ~sync_processing(r)
    /\ ret[r].value # << >>
    /\ resfile' = [resfile EXCEPT ![r] = analysis_result(ret[r].value)]
    /\ pc' = [pc EXCEPT ![r] = "c_status"]
    /\ UNCHANGED << doc, http, task_store, temp, exc, orchVars, cancelVars, reply >>

\* api.py:310
BgSetCompleted(r) == BgAssign(r, "c_status", "status", "completed", "c_prog")

\* api.py:311
BgSetDoneProgress(r) == BgAssign(r, "c_prog", "progress", ProgressDone, "c_msg")

\* api.py:312
BgSetDoneMessage(r) ==
    BgAssign(r, "c_msg", "message",
             [kind |-> "completed", found |-> Len(ret[r].value), err |-> "none"],
             "c_res")

\* api.py:313
BgSetResultPath(r) ==
    BgAssign(r, "c_res", "result_path", <<"results", r>>, "c_int")

\* api.py:314-315
BgSetIntermediatePath(r) ==
    BgAssign(r, "c_int", "intermediate_path",
             <<"intermediate", CkptName(r)>>, "c_clean")

\* api.py:318-319
BgCleanup(r) ==
    /\ pc[r] = "c_clean"
    /\ temp' = [temp EXCEPT ![r] = FALSE]
    /\ pc' = [pc EXCEPT ![r] = "done"]
    /\ UNCHANGED << doc, http, task_store, exc, resfile, orchVars, cancelVars, reply >>

\* an except clause that records the message but not the status
BgSkipFailed(r) ==
    /\ pc[r] = "f_status"
    /\ pc' = [pc EXCEPT ![r] = "f_msg"]
    /\ UNCHANGED << doc, http, task_store, temp, exc, resfile, orchVars,
                    cancelVars, reply >>

\* an except clause that also puts the progress back to the queued value
BgSetFailedClearsProgress(r) ==
    /\ pc[r] = "f_status"
    /\ task_store' = [task_store EXCEPT ![r].status = "failed",
                                        ![r].progress = ProgressQueued]
    /\ pc' = [pc EXCEPT ![r] = "f_msg"]
    /\ UNCHANGED << doc, http, temp, exc, resfile, orchVars, cancelVars, reply >>

\* api.py:323
BgSetFailed(r) == BgAssign(r, "f_status", "status", "failed", "f_msg")

\* api.py:324-325
BgSetFailedMessage(r) ==
    BgAssign(r, "f_msg", "message",
             [kind |-> "failed", found |-> 0, err |-> exc[r]], "f_clean")

\* a failure path that leaves the temp file behind
BgFailNoCleanup(r) ==
    /\ pc[r] = "f_clean"
    /\ pc' = [pc EXCEPT ![r] = "done"]
    /\ UNCHANGED << doc, http, task_store, temp, exc, resfile, orchVars,
                    cancelVars, reply >>

\* api.py:328-331
BgFailCleanup(r) ==
    /\ pc[r] = "f_clean"
    /\ temp' = [temp EXCEPT ![r] = FALSE]
    /\ pc' = [pc EXCEPT ![r] = "done"]
    /\ UNCHANGED << doc, http, task_store, exc, resfile, orchVars, cancelVars, reply >>

(* ---------------------------- cancel_task ------------------------------ *)

\* api.py:258-259: 404 for an unknown id
CancelNotFound(t) ==
    /\ creq.pc = "idle"
    /\ t \notin DOMAIN task_store
    /\ UNCHANGED vars

\* api.py:263: the states in which cancel_task refuses
CancelRefused(status) == status \in {"completed", "failed"}

\* api.py:263-264: 400 for a completed or failed task
CancelInvalidState(t) ==
    /\ creq.pc = "idle"
    /\ t \in DOMAIN task_store
    /\ CancelRefused(task_store[t].status)
    /\ UNCHANGED vars

\* api.py:258-264: the request passes both checks
CancelAccept(t) ==
    /\ creq.pc = "idle"
    /\ t \in DOMAIN task_store
    /\ ~CancelRefused(task_store[t].status)
    /\ creq' = [pc |-> "status", t |-> t]
    /\ UNCHANGED << doc, pc, http, task_store, temp, exc, resfile, orchVars,
                    accepted, reply >>

\* a cancel that also resets the progress of the task
CancelSetStatusResetProgress ==
    /\ creq.pc = "status"
    /\ task_store' = [task_store EXCEPT ![creq.t].status = "cancelled",
                                        ![creq.t].progress = ProgressQueued]
    /\ creq' = [creq EXCEPT !.pc = "msg"]
    /\ UNCHANGED << doc, pc, http, temp, exc, resfile, orchVars, accepted, reply >>

\* api.py:266
CancelSetStatus ==
    /\ creq.pc = "status"
    /\ task_store' = [task_store EXCEPT ![creq.t].status = "cancelled"]
    /\ creq' = [creq EXCEPT !.pc = "msg"]
    /\ UNCHANGED << doc, pc, http, temp, exc, resfile, orchVars, accepted, reply >>

\* api.py:267-270: the message is set and the request answers success
CancelSetMessage ==
    /\ creq.pc = "msg"
    /\ task_store' = [task_store EXCEPT ![creq.t].message =
                        [kind |-> "cancelled", found |-> 0, err |-> "none"]]
    /\ accepted' = accepted \cup {creq.t}
    /\ creq' = IdleCancel
    /\ UNCHANGED << doc, pc, http, temp, exc, resfile, orchVars, reply >>

(* --------------------------- the queries ------------------------------- *)

\* api.py:171-179: the answer of get_analysis_status in the current state
get_analysis_status(t) ==
    IF t \notin DOMAIN task_store
    THEN [code |-> 404, task |-> PendingTask]
    ELSE [code |-> 200, task |-> task_store[t]]

\* the file a result path names can be read
Readable(path) ==
    /\ path # NoPath
    /\ path[1] = "results"
    /\ resfile[path[2]].exists

\* get_analysis_results without the test of the status
get_analysis_results_any_status(t) ==
    IF t \notin DOMAIN task_store THEN [code |-> 404, results |-> NoFile]
    ELSE IF ~Readable(task_store[t].result_path)
         THEN [code |-> 500, results |-> NoFile]
    ELSE [code |-> 200, results |-> resfile[task_store[t].result_path[2]]]

\* api.py:182-207: the answer of get_analysis_results in the current state
get_analysis_results(t) ==
    IF t \notin DOMAIN task_store THEN [code |-> 404, results |-> NoFile]
    ELSE IF task_store[t].status # "completed"
         THEN [code |-> 412, results |-> NoFile]
    ELSE IF ~Readable(task_store[t].result_path)
         THEN [code |-> 500, results |-> NoFile]
    ELSE [code |-> 200, results |-> resfile[task_store[t].result_path[2]]]

\* the file a stored path names exists
Exists(path) ==
    /\ path # NoPath
    /\ IF path[1] = "results" THEN resfile[path[2]].exists
       ELSE ckpt[path[2]].state # "absent"

FileTypes == {"intermediate", "final", "other"}

\* api.py:210-238: the answer of download_file in the current state
download_file(t, file_type) ==
    IF t \notin DOMAIN task_store THEN [code |-> 404, path |-> NoPath]
    ELSE IF file_type \notin {"intermediate", "final"}
         THEN [code |-> 400, path |-> NoPath]
    ELSE LET file_path == IF file_type = "intermediate"
                          THEN task_store[t].intermediate_path
                          ELSE task_store[t].result_path
         IN IF ~Exists(file_path) THEN [code |-> 404, path |-> NoPath]
            ELSE [code |-> 200, path |-> file_path]

\* the queries read and change nothing
GetStatus(t) ==
    /\ get_analysis_status(t).code \in {200, 404}
    /\ UNCHANGED vars

GetResults(t) ==
    /\ get_analysis_results(t).code \in {200, 404, 412, 500}
    /\ UNCHANGED vars

Download(t, file_type) ==
    /\ download_file(t, file_type).code \in {200, 400, 404}
    /\ UNCHANGED vars

\* The same three handlers with their answer kept in reply.
StatusRequest(t) ==
    /\ reply' = [op |-> "status", t |-> t,
                 code |-> get_analysis_status(t).code,
                 task |-> get_analysis_status(t).task]
    /\ UNCHANGED << doc, pc, http, task_store, temp, exc, resfile, orchVars,
                    cancelVars >>

\* a result handler that drops the record of a task once its result is
\* served
ResultsRequestAndForget(t) ==
    /\ reply' = [op |-> "results", t |-> t,
                 code |-> get_analysis_results(t).code,
                 results |-> get_analysis_results(t).results]
    /\ task_store' =
          IF get_analysis_results(t).code = 200
          THEN [u \in DOMAIN task_store \ {t} |-> task_store[u]]
          ELSE task_store
    /\ UNCHANGED << doc, pc, http, temp, exc, resfile, orchVars, cancelVars >>

ResultsRequest(t) ==
    /\ reply' = [op |-> "results", t |-> t,
                 code |-> get_analysis_results(t).code,
                 results |-> get_analysis_results(t).results]
    /\ UNCHANGED << doc, pc, http, task_store, temp, exc, resfile, orchVars,
                    cancelVars >>

DownloadRequest(t, file_type) ==
    /\ reply' = [op |-> "download", t |-> t,
                 code |-> download_file(t, file_type).code,
                 path |-> download_file(t, file_type).path]
    /\ UNCHANGED << doc, pc, http, task_store, temp, exc, resfile, orchVars,
                    cancelVars >>

(* ------------------------------- Next ---------------------------------- *)

Request(r) ==
    \/ SubmitRejected(r)
    \/ SubmitSync(r)
    \/ SubmitAsync(r)
    \/ SyncSaveAndReturn(r)
    \/ SyncFail(r)

Orchestrator(r) ==
    \/ LoadFails(r)
    \/ LoadAndSubmit(r)
    \/ \E i \in 0..(MaxSegs - 1) :
          \/ StartChunk(r, i)
          \/ DiscoverRequirements(r, i)
          \/ SuggestControls(r, i)
          \/ CollectResult(r, i)
    \/ DumpCheckpoint(r)
    \/ ReturnResults(r)

Background(r) ==
    \/ BgSetProcessing(r)
    \/ BgSetLoadingMessage(r)
    \/ BgSetStartProgress(r)
    \/ BgBuildFails(r)
    \/ BgSaveResult(r)
    \/ BgSetCompleted(r)
    \/ BgSetDoneProgress(r)
    \/ BgSetDoneMessage(r)
    \/ BgSetResultPath(r)
    \/ BgSetIntermediatePath(r)
    \/ BgCleanup(r)
    \/ BgSetFailed(r)
    \/ BgSetFailedMessage(r)
    \/ BgFailCleanup(r)

\* one cancel request is in progress at a time; any number follow each other
Cancel ==
    \/ \E t \in DOMAIN doc :
          CancelNotFound(t) \/ CancelInvalidState(t) \/ CancelAccept(t)
    \/ CancelSetStatus
    \/ CancelSetMessage

Query ==
    \E t \in DOMAIN doc :
        \/ GetStatus(t)
        \/ GetResults(t)
        \/ \E file_type \in FileTypes : Download(t, file_type)

Next ==
    \/ \E r \in DOMAIN doc : Request(r) \/ Orchestrator(r) \/ Background(r)
    \/ Cancel
    \/ Query

Spec == Init /\ [][Next]_vars

\* Every thread that has a step to take takes one in the end: the inference
\* calls and the page extraction return or fail, and the thread pools run
\* the background task and the pool workers.
FairSpec ==
    Spec /\ WF_vars(\E r \in DOMAIN doc : Orchestrator(r) \/ Background(r))

(* ------------------------ the queries observed ------------------------- *)

\* largest number of segments of the uploads the queries are observed on
QuerySegs == 1

QueryDocs == { d \in Docs : d.n <= QuerySegs }

QueryInit ==
    /\ doc \in [Runs -> QueryDocs]
    /\ pc = [r \in Runs |-> "new"]
    /\ http = [r \in Runs |-> NoHttp]
    /\ task_store = << >>
    /\ temp = [r \in Runs |-> FALSE]
    /\ work = [r \in Runs |-> << >>]
    /\ results = [r \in Runs |-> << >>]
    /\ all_results = [r \in Runs |-> << >>]
    /\ ckpt = [s \in Seconds |-> NoCkpt]
    /\ writes = [r \in Runs |-> 0]
    /\ ret = [r \in Runs |-> NoReturn]
    /\ loaded = [r \in Runs |-> NotLoaded]
    /\ exc = [r \in Runs |-> "none"]
    /\ resfile = [r \in Runs |-> NoFile]
    /\ creq = IdleCancel
    /\ accepted = {}
    /\ reply = NoReply

ObservedQuery ==
    \E t \in DOMAIN doc :
        \/ StatusRequest(t)
        \/ ResultsRequest(t)
        \/ \E file_type \in FileTypes : DownloadRequest(t, file_type)

QueryNext ==
    \/ \E r \in DOMAIN doc : Request(r) \/ Orchestrator(r) \/ Background(r)
    \/ Cancel
    \/ ObservedQuery

QuerySpec == QueryInit /\ [][QueryNext]_vars

(* ------------------------ the loader alone ----------------------------- *)

\* Small readable uploads with any first page and any first lines; the
\* inference service finds nothing in them.
LoaderDocs ==
    { d \in [ pdf : {TRUE}, size : {SyncLimitTenths - 1}, readable : {TRUE},
              n : 0..MaxSegs,
              resp : UNION { [1..k -> {<<"list", << >>>>}] : k \in 0..MaxSegs },
              workers : {DefaultMaxWorkers}, second : Seconds,
              pages : {<< >>} \cup { <<p>> : p \in Pages },
              lines : UNION { [1..k -> FirstLines] : k \in 0..MaxSegs } ] :
        /\ Len(d.resp) = d.n
        /\ Len(d.lines) = d.n
        /\ d.pages = << >> => d.n = 0 }

LoaderInit ==
    /\ doc \in [Runs -> LoaderDocs]
    /\ pc = [r \in Runs |-> "new"]
    /\ http = [r \in Runs |-> NoHttp]
    /\ task_store = << >>
    /\ temp = [r \in Runs |-> FALSE]
    /\ work = [r \in Runs |-> << >>]
    /\ results = [r \in Runs |-> << >>]
    /\ all_results = [r \in Runs |-> << >>]
    /\ ckpt = [s \in Seconds |-> NoCkpt]
    /\ writes = [r \in Runs |-> 0]
    /\ ret = [r \in Runs |-> NoReturn]
    /\ loaded = [r \in Runs |-> NotLoaded]
    /\ exc = [r \in Runs |-> "none"]
    /\ resfile = [r \in Runs |-> NoFile]
    /\ creq = IdleCancel
    /\ accepted = {}
    /\ reply = NoReply

LoaderNext == \E r \in Runs : SubmitSync(r) \/ LoadAndSubmit(r)

LoaderSpec == LoaderInit /\ [][LoaderNext]_vars

(* ----------------------- the extraction alone -------------------------- *)

ExtractResponses ==
    { <<"list", <<"ok">>>>,
      <<"list", <<"ctlfail", "ok", "ctlnonlist">>>> }

ExtractLines ==
    { NumberedLine, DottedLine, DigitsLine, AnnexCapsLine, SectionLine,
      PlainLine }

\* Small readable uploads of at least one segment, with first lines of every
\* numbering style, processed by a pool of one thread.
ExtractDocs ==
    { d \in [ pdf : {TRUE}, size : {SyncLimitTenths - 1}, readable : {TRUE},
              n : 1..MaxSegs,
              resp : UNION { [1..k -> ExtractResponses] : k \in 1..MaxSegs },
              workers : {1}, second : Seconds,
              pages : {<<PlainPage>>, <<DpdpPage>>},
              lines : UNION { [1..k -> ExtractLines] : k \in 1..MaxSegs } ] :
        /\ Len(d.resp) = d.n
        /\ Len(d.lines) = d.n }

ExtractInit ==
    /\ doc \in [Runs -> ExtractDocs]
    /\ pc = [r \in Runs |-> "new"]
    /\ http = [r \in Runs |-> NoHttp]
    /\ task_store = << >>
    /\ temp = [r \in Runs |-> FALSE]
    /\ work = [r \in Runs |-> << >>]
    /\ results = [r \in Runs |-> << >>]
    /\ all_results = [r \in Runs |-> << >>]
    /\ ckpt = [s \in Seconds |-> NoCkpt]
    /\ writes = [r \in Runs |-> 0]
    /\ ret = [r \in Runs |-> NoReturn]
    /\ loaded = [r \in Runs |-> NotLoaded]
    /\ exc = [r \in Runs |-> "none"]
    /\ resfile = [r \in Runs |-> NoFile]
    /\ creq = IdleCancel
    /\ accepted = {}
    /\ reply = NoReply

ExtractNext ==
    \E r \in Runs :
        \/ SubmitSync(r)
        \/ LoadAndSubmit(r)
        \/ \E i \in 0..(MaxSegs - 1) :
              \/ StartChunk(r, i)
              \/ DiscoverRequirements(r, i)
              \/ SuggestControls(r, i)
              \/ CollectResult(r, i)
        \/ DumpCheckpoint(r)
        \/ ReturnResults(r)
        \/ SyncSaveAndReturn(r)

ExtractSpec == ExtractInit /\ [][ExtractNext]_vars

(* --------------------------- two submissions --------------------------- *)

TwoRuns == {1, 2}
TwoSeconds == {0, 1}

\* Two readable uploads of one segment with one conforming requirement:
\* the first is large, the second large or small, and each run reads the
\* clock in one of two consecutive seconds.
PairDocs ==
    { d \in [TwoRuns ->
               [ pdf : {TRUE}, size : Sizes, readable : {TRUE}, n : {1},
                 resp : {<< <<"list", <<"ok">>>> >>},
                 workers : {DefaultMaxWorkers}, second : TwoSeconds,
                 pages : {<<PlainPage>>}, lines : {<<PlainLine>>} ]] :
        d[1].size >= SyncLimitTenths }

\* analyze_pdf is a coroutine: while a synchronous submission runs its
\* pipeline the event loop accepts no other request
EventLoopFree ==
    \A q \in DOMAIN doc : sync_processing(q) => pc[q] \in {"new", "done"}

TwoRunInit ==
    /\ doc \in PairDocs
    /\ pc = [r \in TwoRuns |-> "new"]
    /\ http = [r \in TwoRuns |-> NoHttp]
    /\ task_store = << >>
    /\ temp = [r \in TwoRuns |-> FALSE]
    /\ work = [r \in TwoRuns |-> << >>]
    /\ results = [r \in TwoRuns |-> << >>]
    /\ all_results = [r \in TwoRuns |-> << >>]
    /\ ckpt = [s \in TwoSeconds |-> NoCkpt]
    /\ writes = [r \in TwoRuns |-> 0]
    /\ ret = [r \in TwoRuns |-> NoReturn]
    /\ loaded = [r \in TwoRuns |-> NotLoaded]
    /\ exc = [r \in TwoRuns |-> "none"]
    /\ resfile = [r \in TwoRuns |-> NoFile]
    /\ creq = IdleCancel
    /\ accepted = {}
    /\ reply = NoReply

TwoRunNext ==
    \E r \in DOMAIN doc :
        \/ EventLoopFree /\ SubmitSync(r)
        \/ EventLoopFree /\ SubmitAsync(r)
        \/ SyncSaveAndReturn(r)
        \/ LoadAndSubmit(r)
        \/ StartChunk(r, 0)
        \/ DiscoverRequirements(r, 0)
        \/ SuggestControls(r, 0)
        \/ CollectResult(r, 0)
        \/ DumpCheckpoint(r)
        \/ ReturnResults(r)
        \/ BgSetProcessing(r)
        \/ BgSetLoadingMessage(r)
        \/ BgSetStartProgress(r)
        \/ BgSaveResult(r)
        \/ BgSetCompleted(r)
        \/ BgSetDoneProgress(r)
        \/ BgSetDoneMessage(r)
        \/ BgSetResultPath(r)
        \/ BgSetIntermediatePath(r)
        \/ BgCleanup(r)

TwoRunSpec == TwoRunInit /\ [][TwoRunNext]_vars

(* ------------------------------ claims --------------------------------- *)

Terminal == {"completed", "failed", "cancelled"}
Statuses == {"pending", "processing"} \cup Terminal

\* the conforming requirements of every segment, in ascending ordinal and
\* response order, computed from the inference answers alone
ExpectedFinal(r) ==
    Concat([k \in 1..NumChunks(r) |-> Validated(process_chunk(r, k - 1))])

\* the lists of the segments collected so far, in ascending ordinal
OrderedPartial(r) ==
    Concat([k \in 1..NumChunks(r) |->
              IF (k - 1) \in Keys(results[r]) THEN process_chunk(r, k - 1)
              ELSE << >>])

\* C1: whatever the order in which the invocations complete and are
\* collected, the orchestrator returns the concatenation, in ascending
\* segment ordinal, of the requirements (the records of Requirement shape)
\* of each segment in response order; the value depends on the inference
\* answers only, so two runs differing in completion order return the same.
C1_FinalInOrdinalOrder ==
    \A r \in Runs : ret[r].returned => ret[r].value = ExpectedFinal(r)

\* two segments with requirements, the later one collected first
C1_Witness ==
    \E r \in Runs :
        /\ ret[r].returned
        /\ Len(results[r]) = 2
        /\ results[r][1][1] = 1
        /\ Validated(results[r][1][2]) # << >>
        /\ Validated(results[r][2][2]) # << >>

\* C2 (as claimed): once a task's status is completed, failed or cancelled,
\* no step changes it to another value.
C2_TerminalFinal ==
    [][\A t \in DOMAIN task_store :
          task_store[t].status \in Terminal
              => task_store'[t].status = task_store[t].status]_vars

\* C3 (as claimed): a cancel request passes the state check only while the
\* status is pending or processing, and no task has a second cancel request
\* answered with success.
C3_CancelAcceptedOnce ==
    [][/\ (creq.pc = "idle" /\ creq'.pc = "status")
            => task_store[creq'.t].status \in {"pending", "processing"}
       /\ (creq.pc = "msg" /\ creq'.pc = "idle")
            => creq.t \notin accepted]_vars

\* C4 (as claimed): when the pipeline of a background run has returned, for
\* any returned list, the run raises nothing, never marks the task failed,
\* and ends with progress 1.0 and both locations attached.
C4_ReturnMeansCompleted ==
    \A r \in DOMAIN task_store :
        ret[r].returned =>
            /\ exc[r] = "none"
            /\ task_store[r].status # "failed"
            /\ pc[r] = "done" =>
                  /\ task_store[r].progress = ProgressDone
                  /\ task_store[r].result_path # NoPath
                  /\ task_store[r].intermediate_path # NoPath

\* C5 (as claimed): once the orchestrator has returned, its value and the
\* content of the last checkpoint it wrote are the same sequence.
C5_FinalEqualsLastCheckpoint ==
    \A r \in Runs :
        (ret[r].returned /\ writes[r] > 0)
            => ret[r].value = ckpt[CkptName(r)].content

\* C6: every checkpoint the orchestrator writes, and every snapshot it is
\* about to write, is the concatenation in ascending ordinal of the lists of
\* exactly the segments collected so far, each of them a completed
\* invocation; the others contribute nothing.
C6_CheckpointOrdinalOrdered ==
    \A r \in Runs :
        /\ \A i \in Keys(results[r]) : work[r][i + 1].st = "done"
        /\ pc[r] = "dump" => all_results[r] = OrderedPartial(r)
        /\ (writes[r] > 0 /\ pc[r] # "dump")
              => /\ ckpt[CkptName(r)].state = "written"
                 /\ ckpt[CkptName(r)].content = OrderedPartial(r)

\* a checkpoint that holds the requirements of segment 1 alone, written
\* while segment 0 is still being processed
C6_Witness ==
    \E r \in Runs :
        /\ NumChunks(r) = 2
        /\ Keys(results[r]) = {1}
        /\ work[r][1].st \in {"discover", "controls"}
        /\ ckpt[CkptName(r)].state = "written"
        /\ ckpt[CkptName(r)].content # << >>

\* C7 (as claimed): once a cancel request for a task has answered success,
\* no later step attaches a result location to the task or sets its status
\* to completed.
C7_CancelledStaysCancelled ==
    [][\A t \in accepted :
          /\ task_store'[t].status = "completed"
                => task_store[t].status = "completed"
          /\ task_store'[t].result_path # NoPath
                => task_store[t].result_path # NoPath]_vars

\* C8 (as claimed): what a status or result query reads is never a
\* partially updated record: completed comes with progress 1.0 and a
\* result location that get_analysis_results can serve, processing comes
\* with progress 0.1.
C8_ReadsAreConsistent ==
    \A t \in DOMAIN task_store :
        LET rec == get_analysis_status(t).task
        IN /\ rec.status = "completed" =>
                 /\ rec.progress = ProgressDone
                 /\ rec.result_path # NoPath
                 /\ resfile[t].exists => get_analysis_results(t).code # 500
           /\ rec.status = "processing" => rec.progress = ProgressStarted

\* the segments whose requirement-discovery call raises, and the documents
\* in which some calls raise while every other call returns a list
FailingSegments(r) == { i \in Ordinals(r) : ResponseOf(r, i)[1] = "fail" }
SomeFailOthersSucceed(r) ==
    /\ doc[r].readable
    /\ FailingSegments(r) # {}
    /\ FailingSegments(r) # Ordinals(r)
    /\ \A i \in Ordinals(r) \ FailingSegments(r) : ResponseOf(r, i)[1] = "list"

\* C9 (as claimed): when some discovery calls fail and the others succeed,
\* nothing is raised, the returned value is the ordinal-ordered
\* concatenation of the requirements of the segments that did not fail, and
\* the task does not end in failed.
C9_FaultIsolation ==
    \A r \in Runs :
        SomeFailOthersSucceed(r) =>
            /\ exc[r] = "none"
            /\ ret[r].returned =>
                  ret[r].value =
                     Concat([k \in 1..NumChunks(r) |->
                               IF (k - 1) \in FailingSegments(r) THEN << >>
                               ELSE Validated(process_chunk(r, k - 1))])
            /\ r \in DOMAIN task_store => task_store[r].status # "failed"

\* C10: an accepted upload below 5.0 MB never has a task record, whether
\* its pipeline succeeds or fails, and is answered inline; an accepted
\* upload of 5.0 MB or more has exactly its own task record from the moment
\* the submit call returns, created pending with progress 0, and the status
\* a query reports is pending or processing until it is a terminal one.
C10_SizeRouting ==
    \A r \in Runs :
        /\ doc[r].size < SyncLimitTenths =>
              /\ r \notin DOMAIN task_store
              /\ get_analysis_status(r).code = 404
              /\ http[r].mode # "asynchronous"
              /\ pc[r] = "done" => http[r].code \in {200, 500}
        /\ (doc[r].pdf /\ doc[r].size >= SyncLimitTenths /\ pc[r] # "new") =>
              /\ r \in DOMAIN task_store
              /\ http[r].code = 200 /\ http[r].mode = "asynchronous"
              /\ get_analysis_status(r).code = 200
              /\ get_analysis_status(r).task.status \in Statuses
              /\ (pc[r] = "queued" /\ creq.pc \in {"idle", "status"}
                     /\ r \notin accepted)
                    => task_store[r] = PendingTask
        /\ r \in DOMAIN task_store => pc[r] # "new"

\* a small upload answered inline, with requirements, and no task record
C10_WitnessSync ==
    \E r \in Runs :
        /\ doc[r].size < SyncLimitTenths
        /\ http[r].code = 200
        /\ http[r].mode = "synchronous"
        /\ http[r].found > 0
        /\ task_store = << >>

\* C11: get_result answers NotFound (404) for an unknown id, otherwise
\* NotReady (412) for any status but completed, otherwise ResultMissing
\* (500) when the result location is unset or names no readable file, and
\* returns the stored result (200) only for a completed task whose result
\* file is readable; the result it returns is the one the run saved.
C11_GetResultContract ==
    \A t \in Runs :
        LET a == get_analysis_results(t)
            known == t \in DOMAIN task_store
            done == known /\ task_store[t].status = "completed"
            there == /\ done
                     /\ task_store[t].result_path = <<"results", t>>
                     /\ resfile[t].exists
        IN /\ ~known => a.code = 404
           /\ (known /\ ~done) => a.code = 412
           /\ (done /\ ~there) => a.code = 500
           /\ there => a.code = 200
           /\ a.code \in {200, 404, 412, 500}
           /\ a.code # 200 => a.results = NoFile
           /\ a.code = 200 =>
                 /\ ret[t].returned
                 /\ a.results = analysis_result(ret[t].value)

\* a completed task whose stored result, with requirements, is returned
C11_Witness ==
    \E t \in DOMAIN task_store :
        /\ task_store[t].status = "completed"
        /\ get_analysis_results(t).code = 200
        /\ get_analysis_results(t).results.found > 0

RECURSIVE IsSubseq(_, _)
\* s can be obtained from t by deleting records
IsSubseq(s, t) ==
    IF s = << >> THEN TRUE
    ELSE IF t = << >> THEN FALSE
    ELSE IF Head(s) = Head(t) THEN IsSubseq(Tail(s), Tail(t))
    ELSE IsSubseq(s, Tail(t))

\* C12 (as claimed): at every point of a run the content of the checkpoint
\* is a subsequence of the final result of the run: each of its records is
\* in the final result, in the same relative order.
C12_CheckpointSubsequenceOfFinal ==
    \A r \in Runs :
        writes[r] > 0 => IsSubseq(ckpt[CkptName(r)].content, ExpectedFinal(r))

\* C13 (as claimed): once a run has written a checkpoint, a reader of the
\* checkpoint file finds a complete snapshot at any moment, never an empty
\* or half-written file.
C13_NoTornCheckpoint ==
    \A r \in Runs : writes[r] > 0 => ckpt[CkptName(r)].state = "written"

\* C14: a step of a cancel request changes nothing but the status and the
\* message of the task it addresses: the progress and the two locations of
\* that task, every other task record, the set of tasks, and the state of
\* the runs (results map, queued and running invocations, checkpoint, temp
\* and result files) stay as they are.  A refused request takes no step.
C14_CancelOnlyMarks ==
    [][creq' # creq =>
         LET t == IF creq.pc = "idle" THEN creq'.t ELSE creq.t
         IN /\ DOMAIN task_store' = DOMAIN task_store
            /\ \A u \in DOMAIN task_store :
                  /\ u # t => task_store'[u] = task_store[u]
                  /\ task_store'[u].progress = task_store[u].progress
                  /\ task_store'[u].result_path = task_store[u].result_path
                  /\ task_store'[u].intermediate_path =
                        task_store[u].intermediate_path
            /\ UNCHANGED << doc, pc, http, temp, exc, resfile, orchVars >>]_vars

\* a cancel request has marked a task whose orchestrator is between two
\* checkpoint writes with an invocation still running
C14_Witness ==
    \E r \in DOMAIN task_store :
        /\ creq = [pc |-> "msg", t |-> r]
        /\ task_store[r].status = "cancelled"
        /\ task_store[r].progress = ProgressStarted
        /\ writes[r] > 0
        /\ Running(r) # {}

\* no cancel request for task t has passed the state check
NeverCancelled(t) == t \notin accepted /\ creq.t # t

\* C15: when an error leaves the pipeline no result is published.  A
\* background run never attaches a result location and saves no result
\* file, the submit call has answered 200, and the run ends with the task
\* failed and the error text as its message (for a task no cancel request was
\* accepted for).  A synchronous submit answers 500, stores no task record
\* and saves no result.  When it is the page extraction that failed, no
\* invocation was submitted and no checkpoint written.
C15_FatalErrorPublishesNothing ==
    \A r \in Runs :
        exc[r] # "none" =>
            /\ ~resfile[r].exists
            /\ sync_processing(r) =>
                  /\ r \notin DOMAIN task_store
                  /\ pc[r] = "done" => http[r] = [NoHttp EXCEPT !.code = 500]
            /\ ~sync_processing(r) =>
                  /\ r \in DOMAIN task_store
                  /\ task_store[r].result_path = NoPath
                  /\ task_store[r].intermediate_path = NoPath
                  /\ get_analysis_results(r).code # 200
                  /\ http[r].code = 200 /\ http[r].mode = "asynchronous"
                  /\ (pc[r] = "done" /\ NeverCancelled(r)) =>
                        /\ task_store[r].status = "failed"
                        /\ task_store[r].message =
                              [kind |-> "failed", found |-> 0, err |-> exc[r]]
            /\ exc[r] = "DocumentUnreadable" =>
                  /\ work[r] = << >>
                  /\ writes[r] = 0
                  /\ ckpt[CkptName(r)] = NoCkpt

\* a background run that ended on an unreadable document
C15_Witness ==
    \E r \in DOMAIN task_store :
        /\ exc[r] = "DocumentUnreadable"
        /\ pc[r] = "done"
        /\ NeverCancelled(r)
        /\ task_store[r].status = "failed"

\* C16: the temp file of a submission exists from the moment it is written
\* until the run that reads it has ended, and no longer: it is there while
\* the run is queued, loads the document, extracts and updates the record,
\* and it is gone once the background run has returned (completed or
\* failed) and once the synchronous submit has answered (result or error).
C16_TempFileReleased ==
    \A r \in Runs :
        /\ pc[r] = "done" => ~temp[r]
        /\ http[r].mode = "synchronous" => ~temp[r]
        /\ http[r].code = 500 => ~temp[r]
        /\ pc[r] \notin {"new", "done"} => temp[r]

\* a background run that failed and has removed its temp file
C16_Witness ==
    \E r \in DOMAIN task_store :
        /\ pc[r] = "done"
        /\ task_store[r].status = "failed"
        /\ ~temp[r]

\* the records of the discovery response of segment i as they would be with
\* their controls, whatever their form
RawRecords(r, i) ==
    LET resp == ResponseOf(r, i)
        kinds == resp[2]
    IN IF resp[1] # "list" THEN << >>
       ELSE [k \in 1..Len(kinds) |->
               [Override(r, i, k, kinds[k]) EXCEPT
                  !.controls = extract_controls_for_requirement(
                                   Override(r, i, k, kinds[k]))]]

RECURSIVE ConformingOf(_)
\* the records of a batch that have the Requirement shape
ConformingOf(s) ==
    IF s = << >> THEN << >>
    ELSE (IF IsMapping(Head(s).kind) /\ Conforms(Head(s))
          THEN <<Head(s)>> ELSE << >>) \o ConformingOf(Tail(s))

\* C17 (as claimed): the final result is exactly the conforming records of
\* every segment's response, in ordinal and response order; a record of any
\* other form is dropped alone and never takes the conforming records of
\* its batch with it.
C17_DroppedIndividually ==
    \A r \in Runs :
        ret[r].returned =>
            ret[r].value =
               Concat([k \in 1..NumChunks(r) |->
                         ConformingOf(RawRecords(r, k - 1))])

\* C18: at every moment of a run the number of process_chunk invocations
\* that have started and not returned is at most max_workers.
C18_BoundedParallelism ==
    \A r \in Runs : Cardinality(Running(r)) <= doc[r].workers

\* the pool is full: max_workers invocations run and another waits
C18_Witness ==
    \E r \in Runs :
        /\ Cardinality(Running(r)) = doc[r].workers
        /\ \E k \in 1..Len(work[r]) : work[r][k].st = "queued"

\* the line starts with an integer from 1 to 49 followed by a period
StartsWithSmallInteger(str) ==
    \E j \in 1..49 : StartsWith(str, Str(j) \o <<".">>)

\* the label the claim gives the piece at position i
ClaimedLabel(i, line) ==
    LET first == strip(line)
    IN IF \/ StartsWithSmallInteger(first)
          \/ isdigit(first)
          \/ Contains(first, << "A", "N", "N", "E", "X" >>)
       THEN first
       ELSE << "s", "e", "c", "t", "i", "o", "n", "_" >> \o Str(i + 1)

\* the label as amended: the DPDP rule comes first, and annex counts in any
\* letter case
AmendedLabel(doc_type, i, line) ==
    LET first == strip(line)
    IN IF /\ doc_type = "DPDP"
          /\ \/ Contains(lower(first), << "s", "e", "c", "t" >>)
             \/ Contains(first, << "s", "e", "c", ".", " " >>)
       THEN << "S", "e", "c", "t", "i", "o", "n", "_" >> \o Str(i + 1)
       ELSE IF \/ StartsWithSmallInteger(first)
               \/ isdigit(first)
               \/ Contains(lower(first), << "a", "n", "n", "e", "x" >>)
       THEN first
       ELSE << "s", "e", "c", "t", "i", "o", "n", "_" >> \o Str(i + 1)

\* C19 (as claimed): for every doc_type the id of the piece at position i
\* is its trimmed first line when that line starts with a small integer and
\* a period, is purely numeric or contains ANNEX in capitals, and is
\* section_{i+1} otherwise.
C19_SegmentLabels ==
    \A r \in Runs :
        \A k \in 1..Len(loaded[r].section_ids) :
            loaded[r].section_ids[k] = ClaimedLabel(k - 1, doc[r].lines[k])

\* C19 (amended): in a DPDP document a piece whose trimmed first line
\* contains "sect" in any letter case, or "sec. ", gets the id
\* Section_{i+1}; any other piece gets its trimmed first line when that line
\* starts with an integer from 1 to 49 and a period, is purely numeric or
\* contains "annex" in any letter case, and section_{i+1} otherwise.
C19_SegmentLabelsAmended ==
    \A r \in Runs :
        /\ loaded[r].doc_type # "none" => Len(loaded[r].section_ids) = doc[r].n
        /\ \A k \in 1..Len(loaded[r].section_ids) :
              loaded[r].section_ids[k] =
                 AmendedLabel(loaded[r].doc_type, k - 1, doc[r].lines[k])

\* a DPDP document whose second piece starts with "Section 4" and is
\* labelled Section_2, after a piece labelled with its own numbered line
C19_Witness ==
    \E r \in Runs :
        /\ loaded[r].doc_type = "DPDP"
        /\ doc[r].lines = << NumberedLine, SectionLine >>
        /\ loaded[r].section_ids =
              << << "7", ".", " ", "S", "c", "o", "p", "e" >>,
                 << "S", "e", "c", "t", "i", "o", "n", "_", "2" >> >>

\* the sample holds a marker phrase of the class, in any letter case
HasMarker(markers, sample) == \E m \in markers : Contains(lower(sample), m)

\* C20: the type is ISO when the sample holds an ISO marker, whatever else
\* it holds; else DPDP when it holds a DPDP marker; else RBI when it holds
\* an RBI marker; else GENERAL, which is also the type of an empty page set.
C20_TypePriority ==
    \A r \in Runs :
        loaded[r].doc_type # "none" =>
            LET t == loaded[r].doc_type
                sample == sample_text(doc[r].pages)
                iso == HasMarker(IsoMarkers, sample)
                dpdp == HasMarker(DpdpMarkers, sample)
                rbi == HasMarker(RbiMarkers, sample)
            IN /\ iso => t = "ISO"
               /\ (dpdp /\ ~iso) => t = "DPDP"
               /\ (rbi /\ ~dpdp /\ ~iso) => t = "RBI"
               /\ (~rbi /\ ~dpdp /\ ~iso) => t = "GENERAL"
               /\ doc[r].pages = << >> =>
                     t = "GENERAL" /\ loaded[r].section_ids = << >>
               /\ doc[r].pages = <<AllMarkersPage>> => t = "ISO"
               /\ doc[r].pages = <<DpdpRbiPage>> => t = "DPDP"
               /\ doc[r].pages = <<ReserveBankPage>> => t = "RBI"
               /\ doc[r].pages = <<PlainPage>> => t = "GENERAL"
               /\ doc[r].pages = <<EmptyText>> => t = "GENERAL"

\* a first page with a DPDP and an RBI marker, classified DPDP
C20_Witness ==
    \E r \in Runs :
        /\ doc[r].pages = <<DpdpRbiPage>>
        /\ loaded[r].doc_type = "DPDP"

\* digits in groups separated by single periods
IsDottedNumber(str) ==
    /\ str # << >>
    /\ \A k \in 1..Len(str) : isdigit(<<str[k]>>) \/ str[k] = "."
    /\ str[1] # "." /\ str[Len(str)] # "."
    /\ \A k \in 1..(Len(str) - 1) : ~(str[k] = "." /\ str[k + 1] = ".")

\* the longest digit(.digit)* token an id starts with, the id when it starts
\* with none
ClaimedArticleNumber(id) ==
    LET ks == { k \in 1..Len(id) : IsDottedNumber(SubSeq(id, 1, k)) }
    IN IF ks = {} THEN id
       ELSE SubSeq(id, 1, CHOOSE k \in ks : \A j \in ks : j <= k)

\* C21: every requirement an invocation yields for segment i, and every
\* requirement of the final result, carries as article_number the leading
\* digit(.digit)* token of the segment's id (the id itself when there is
\* none) and as article_text the text of the segment, never what the
\* response reported.
C21_ArticleFieldsOverwritten ==
    \A r \in Runs :
        /\ \A k \in 1..Len(work[r]) :
              \A j \in 1..Len(work[r][k].reqs) :
                 /\ work[r][k].reqs[j].text = <<r, k - 1>>
                 /\ work[r][k].reqs[j].art =
                       ClaimedArticleNumber(loaded[r].section_ids[k])
        /\ \A p \in 1..Len(ret[r].value) :
              LET rec == ret[r].value[p]
              IN /\ rec.art # SuppliedArticle
                 /\ \E i \in Ordinals(r) :
                       /\ rec.text = <<r, i>>
                       /\ rec.art =
                             ClaimedArticleNumber(loaded[r].section_ids[i + 1])

\* a result with a requirement numbered 6.1.2 from "6.1.2 Risk" and one
\* numbered by the raw id "ANNEX A"
C21_Witness ==
    \E r \in Runs :
        /\ ret[r].returned
        /\ doc[r].lines = << DottedLine, AnnexCapsLine >>
        /\ \E p \in 1..Len(ret[r].value) :
              ret[r].value[p].art = << "6", ".", "1", ".", "2" >>
        /\ \E p \in 1..Len(ret[r].value) :
              ret[r].value[p].art = AnnexCapsLine

\* the final result holds the k-th record of segment i with these controls
Emitted(r, i, k, controls) ==
    \E p \in 1..Len(ret[r].value) :
        /\ ret[r].value[p].text = <<r, i>>
        /\ ret[r].value[p].id = k
        /\ ret[r].value[p].controls = controls

\* C22: a requirement whose control call fails or returns a non-list is
\* still emitted, with an empty controls list, every other requirement of
\* the segment is emitted with the controls of its own call, and nothing is
\* raised.
C22_ControlFailureIsLocal ==
    \A r \in Runs :
        /\ exc[r] = "none"
        /\ ret[r].returned =>
              \A i \in Ordinals(r) :
                 LET kinds == ResponseOf(r, i)[2]
                 IN \A k \in 1..Len(kinds) :
                       /\ kinds[k] \in {"ctlfail", "ctlnonlist"}
                             => Emitted(r, i, k, "empty")
                       /\ kinds[k] = "ok" => Emitted(r, i, k, "ok")

\* a returned result for a segment with a failing control call, a good one
\* and one that returned a non-list
C22_Witness ==
    \E r \in Runs :
        /\ ret[r].returned
        /\ ResponseOf(r, 0)[2] = <<"ctlfail", "ok", "ctlnonlist">>
        /\ Emitted(r, 0, 1, "empty")
        /\ Emitted(r, 0, 2, "ok")
        /\ Emitted(r, 0, 3, "empty")

\* C23: an invocation is started once per segment and never again; it makes
\* one discovery call, before any control call; it then makes one control
\* call per discovered requirement, in response order, each setting the
\* controls of its requirement, which was unset until then; and a list is
\* stored by the orchestrator only with every controls field set.
C23_EachCallOnce ==
    [][\A r \in Runs :
          /\ work[r] # << >> => Len(work'[r]) = Len(work[r])
          /\ \A k \in 1..Len(work[r]) :
                LET w == work[r][k]
                    v == work'[r][k]
                IN v # w =>
                     \/ /\ w.st = "queued"
                        /\ v = [w EXCEPT !.st = "discover"]
                     \/ /\ w.st = "discover"
                        /\ v.j = 0
                        /\ v.st = IF v.reqs = << >> THEN "done" ELSE "controls"
                        /\ \A q \in 1..Len(v.reqs) :
                              v.reqs[q].id = q /\ v.reqs[q].controls = "unset"
                     \/ /\ w.st = "controls"
                        /\ v.j = w.j + 1
                        /\ Len(v.reqs) = Len(w.reqs)
                        /\ v.st = IF v.j = Len(v.reqs) THEN "done" ELSE "controls"
                        /\ w.reqs[v.j].controls = "unset"
                        /\ v.reqs[v.j].controls # "unset"
                        /\ \A q \in 1..Len(v.reqs) :
                              q # v.j => v.reqs[q] = w.reqs[q]
          /\ \A e \in 1..Len(results'[r]) :
                \A q \in 1..Len(results'[r][e][2]) :
                   results'[r][e][2][q].controls # "unset"]_vars

\* a segment whose three control calls are done and whose list is stored,
\* next to a segment whose discovery call failed
C23_Witness ==
    \E r \in Runs :
        /\ Len(work[r]) = 2
        /\ work[r][1].st = "done" /\ work[r][1].j = 3
        /\ 0 \in Keys(results[r])
        /\ ResponseOf(r, 1)[1] = "fail"
        /\ work[r][2].st = "done"

\* C24: between a slot write and the end of the checkpoint write that
\* follows it the results map does not change; a slot write adds the list of
\* one uncollected segment under that segment's own ordinal and is followed
\* by the write of the snapshot of the map as it then is.
C24_SlotWriteAndSnapshotSerialized ==
    [][\A r \in Runs :
          /\ pc[r] = "dump" =>
                /\ results'[r] = results[r]
                /\ pc'[r] # "dump" =>
                      ckpt'[CkptName(r)] =
                         [state |-> "written", content |-> Flatten(results[r])]
          /\ results'[r] # results[r] =>
                /\ pc'[r] = "dump"
                /\ \E i \in Ordinals(r) \ Keys(results[r]) :
                      results'[r] = Append(results[r], <<i, process_chunk(r, i)>>)]_vars

\* a checkpoint is being written while another finished invocation waits
\* to be collected
C24_Witness ==
    \E r \in Runs :
        /\ pc[r] = "dump"
        /\ \E i \in Ordinals(r) \ Keys(results[r]) : work[r][i + 1].st = "done"

\* C25: a document split into n pieces has one invocation per ordinal
\* 0..n-1 and one section id per piece; results are stored under ordinals
\* of that range only, none twice; and when the orchestrator returns the
\* results map holds exactly one entry per ordinal.
C25_OrdinalsExact ==
    \A r \in Runs :
        /\ loaded[r].doc_type # "none" =>
              /\ Len(loaded[r].section_ids) = NumChunks(r)
              /\ Len(work[r]) = NumChunks(r)
        /\ Keys(results[r]) \subseteq 0..(NumChunks(r) - 1)
        /\ Cardinality(Keys(results[r])) = Len(results[r])
        /\ ret[r].returned =>
              /\ Keys(results[r]) = 0..(NumChunks(r) - 1)
              /\ Len(results[r]) = NumChunks(r)

\* a run of two segments returned after storing segment 1 before segment 0
C25_Witness ==
    \E r \in Runs :
        /\ ret[r].returned
        /\ NumChunks(r) = 2
        /\ results[r][1][1] = 1
        /\ results[r][2][1] = 0

\* C30: a checkpoint write happens only as the step after a slot write, so
\* the writes done so far are as many as the segments collected (one less
\* while a write is in progress) and n when the run returns, none for n = 0;
\* the k-th checkpoint is the snapshot of exactly k segments; and each
\* checkpoint is a subsequence of the snapshot written next, which covers
\* the same segments and one more.
C30_OneCheckpointPerCompletion ==
    [][\A r \in Runs :
          /\ writes'[r] \in {writes[r], writes[r] + 1}
          /\ writes'[r] # writes[r] => pc[r] = "dump"
          /\ writes'[r] =
                Len(results'[r]) - (IF pc'[r] = "dump" THEN 1 ELSE 0)
          /\ ret'[r].returned => writes'[r] = NumChunks(r)
          /\ NumChunks(r) = 0 => ckpt'[CkptName(r)] = NoCkpt
          /\ (writes'[r] > 0 /\ pc'[r] # "dump") =>
                /\ Cardinality(Keys(results'[r])) = writes'[r]
                /\ ckpt'[CkptName(r)].content = Flatten(results'[r])
          /\ (writes[r] > 0 /\ pc[r] = "pool" /\ pc'[r] = "dump") =>
                /\ IsSubseq(ckpt[CkptName(r)].content, all_results'[r])
                /\ Keys(results[r]) \subseteq Keys(results'[r])
                /\ Keys(results[r]) # Keys(results'[r])]_vars

\* the second checkpoint of a run whose segment 1 was collected first: the
\* records of segment 0 were put in front of those of the first checkpoint
C30_Witness ==
    \E r \in Runs :
        /\ writes[r] = 2
        /\ results[r][1][1] = 1
        /\ results[r][1][2] # << >>
        /\ results[r][2][2] # << >>
        /\ ckpt[CkptName(r)].state = "written"

\* C27 (as claimed): every saved AnalysisResult reports as requirement
\* count the number of its requirement records, the message of the
\* completed task states that number, and the reported segment count is the
\* number of segments the document was split into.
C27_CountsMatch ==
    \A r \in Runs :
        resfile[r].exists =>
            /\ resfile[r].found = Len(resfile[r].data)
            /\ resfile[r].total_chunks = NumChunks(r)
            /\ (r \in DOMAIN task_store
                  /\ task_store[r].message.kind = "completed")
                  => task_store[r].message.found = resfile[r].found

\* C26: a step of a query handler changes no task record and adds or
\* removes none, nor anything else of the service; get_status answers
\* with the record as it is at that moment, in any of the five states, for a
\* known id, and NotFound for an unknown one.
C26_QueriesOnlyRead ==
    [][reply' # reply =>
         /\ task_store' = task_store
         /\ UNCHANGED << doc, pc, http, temp, exc, resfile, orchVars,
                         cancelVars >>
         /\ reply'.op \in {"status", "results", "download"}
         /\ reply'.op = "status" =>
               IF reply'.t \in DOMAIN task_store
               THEN /\ reply'.code = 200
                    /\ reply'.task = task_store[reply'.t]
                    /\ reply'.task.status \in Statuses
               ELSE reply'.code = 404]_vars

\* get_status has answered with the record of a task that was cancelled
\* while it was processing, and the record is still in the store
C26_Witness ==
    /\ reply.op = "status"
    /\ reply.code = 200
    /\ reply.task.status = "cancelled"
    /\ reply.task.progress = ProgressStarted
    /\ reply.t \in DOMAIN task_store
    /\ task_store[reply.t] = reply.task

\* C28: when every thread with a step to take takes it in the end, a task
\* created on the asynchronous path reaches a point from which its status
\* is completed, failed or cancelled for ever, whatever cancel and query
\* requests arrive.
C28_EventuallyTerminal ==
    \A r \in Runs :
        (r \in DOMAIN task_store)
            ~> [](r \in DOMAIN task_store /\ task_store[r].status \in Terminal)

\* a task whose run has ended and that a cancel request marked on its way
C28_Witness ==
    \E r \in DOMAIN task_store :
        /\ pc[r] = "done"
        /\ r \in accepted
        /\ creq = IdleCancel
        /\ task_store[r].status \in Terminal

\* run r is inside the orchestrator
InPipeline(r) == pc[r] \in {"pool", "dump"}

\* C29 (as claimed): two runs that are inside the pipeline at the same time
\* have different checkpoint files, and the checkpoint file of a run holds
\* requirements of that run's document only.
C29_CheckpointsNotShared ==
    \A r \in DOMAIN doc :
        /\ \A q \in DOMAIN doc :
              (q # r /\ InPipeline(q) /\ InPipeline(r))
                 => CkptName(q) # CkptName(r)
        /\ writes[r] > 0 =>
              \A p \in 1..Len(ckpt[CkptName(r)].content) :
                 ckpt[CkptName(r)].content[p].text[1] = r

\* the values the code assigns to progress, in tenths: api.py:154, 283, 311
ProgressValues == {ProgressQueued, ProgressStarted, ProgressDone}

\* the positions of process_pdf_analysis behind the assignment of line 310
BehindCompleted == {"c_prog", "c_msg", "c_res", "c_int", "c_clean", "done"}

\* the background run of t has saved its result and assigned "completed"
HasSetCompleted(t) == pc[t] \in BehindCompleted /\ resfile[t].exists

C31_ProgressState ==
    \A t \in DOMAIN task_store :
        /\ task_store[t].progress \in ProgressValues
        /\ task_store[t].progress \in ProgressQueued..ProgressDone
        /\ task_store[t].progress = ProgressDone => HasSetCompleted(t)
        /\ task_store[t].result_path # NoPath =>
              /\ HasSetCompleted(t)
              /\ task_store[t].result_path = <<"results", t>>

C31_ProgressStep ==
    \A t \in DOMAIN task_store :
        /\ t \in DOMAIN task_store'
        /\ task_store'[t].progress >= task_store[t].progress
        /\ task_store'[t].progress # task_store[t].progress =>
              pc[t] \in {"p_prog", "c_prog"}
        /\ task_store'[t].result_path # task_store[t].result_path =>
              pc[t] = "c_res" /\ task_store[t].status \in {"completed", "cancelled"}

\* C31: in every reachable state the progress of each task record is one of
\* 0.0, 0.1 and 1.0 (so within [0,1]); no step lowers it; it is 1.0 only
\* when the background run has assigned "completed" to the task; and a
\* result location is attached only by a step of a background run that has
\* assigned "completed"
C31_ProgressValues == []C31_ProgressState /\ [][C31_ProgressStep]_vars

\* a task cancelled while its run was finishing: progress 1.0 and a result
\* location on a record whose status is no longer "completed"
C31_Witness ==
    \E t \in DOMAIN task_store :
        /\ task_store[t].progress = ProgressDone
        /\ task_store[t].result_path = <<"results", t>>
        /\ task_store[t].status = "cancelled"
        /\ pc[t] = "done"

====
